---------------------------- MODULE Spec2Model ----------------------------
(***************************************************************************)
(* Model of the RouteGuide gRPC service (src/src/server.rs) and of the     *)
(* geometry / lookup helpers it uses (src/src/route/util.rs).              *)
(*                                                                         *)
(* The four handlers are get_feature, list_features, record_route and      *)
(* route_chat.  The feature store is fixed at construction; the streaming  *)
(* handlers are modelled step by step (one step per poll of the stream     *)
(* combinators fold / map / flatten / send_all).                           *)
(***************************************************************************)
EXTENDS Integers, Sequences, FiniteSets, TLC

VARIABLES
    features,    \* RouteGuideService.features : the feature store
    now,         \* the monotonic clock read by Instant::now(), in milliseconds
    \* ---- get_feature ----
    gfPoint,     \* <<>> or <<p>> : the point of the latest GetFeature request
    gfReply,     \* replies handed to the UnarySink of that request
    \* ---- list_features ----
    lfRect,      \* <<>> or <<r>> : the rectangle of the latest ListFeatures request
    lfIter,      \* the collected Vec still to be sent by send_all
    lfOut,       \* features written to the ServerStreamingSink
    lfPc,        \* "idle" | "send" | "closed"
    \* ---- record_route ----
    route,       \* the points the client is going to send on the call
    rrSent,      \* number of points the client has sent
    rrClosed,    \* the client has half-closed the request stream
    rrErr,       \* the request stream has failed (transport error / cancel)
    rrRead,      \* number of points the fold has consumed
    rrPc,        \* "idle" | "fold" | "done" | "failed"
    acc,         \* <<>> or <<[prev, sum]>> : the fold accumulator
    timer,       \* the Instant taken at the start of the call
    rrOut,       \* summaries handed to the ClientStreamingSink
    \* ---- route_chat (one entry per call) ----
    chatPc,      \* "idle" | "run" | "closed" | "failed"
    chatIn,      \* notes sent by the client and not yet read by the handler
    chatClosed,  \* the client has half-closed the request stream
    chatErr,     \* the stream or the sink of the call has failed
    buffer,      \* the handler's Vec<RouteNote>
    next,        \* Flatten.next : the replay iterator being drained
    buffered,    \* SendAll.buffered : <<>> or <<item>> waiting for the sink
    sinkBusy,    \* the DuplexSink has a write in flight
    chatOut,     \* notes accepted by the DuplexSink
    \* ---- util::in_range ----
    irPoint,     \* <<>> or <<p>> : the point of the latest in_range call
    irRect,      \* <<>> or <<r>> : the rectangle of that call
    irOut        \* <<>> or <<b>> : the bool it returned

queryVars  == <<gfPoint, gfReply, lfRect, lfIter, lfOut, lfPc>>
recordVars == <<route, rrSent, rrClosed, rrErr, rrRead, rrPc, acc, timer, rrOut>>
chatVars   == <<chatPc, chatIn, chatClosed, chatErr, buffer, next, buffered,
                sinkBusy, chatOut>>
utilVars   == <<irPoint, irRect, irOut>>
vars == <<features, now, queryVars, recordVars, chatVars, utilVars>>

---------------------------------------------------------------------------
(* Bounds of the model *)

MaxFeatures == 2     \* longest feature store
MaxPoints   == 3     \* longest freely chosen RecordRoute input
LongHops    == 108   \* hops of the long back-and-forth RecordRoute input
MaxInFlight == 1     \* points / notes in the transport queue of a call
MaxTicks    == 3     \* clock ticks
MaxNotes    == 3     \* notes sent over all RouteChat calls
NumCalls    == 1     \* RouteChat calls
GridSpan    == 1     \* largest coordinate of the in_range inputs

---------------------------------------------------------------------------
(* Data *)

Pt(lat, lon) == [latitude |-> lat, longitude |-> lon]

\* Point::default()
DefaultPoint == Pt(0, 0)

Origin   == Pt(0, 0)
Antipode == Pt(0, 1800000000)
Feature1 == Pt(409146138, -746188906)

Points == {Origin, Antipode, Feature1}

StorePoints == {Origin, Feature1}

Names == {"", "A"}

Feat(n, p) == [name |-> n, location |-> p]

Features == {Feat(n, p) : n \in Names, p \in StorePoints}

SeqsUpTo(S, n) == UNION {[1..k -> S] : k \in 0..n}

Stores == SeqsUpTo(Features, MaxFeatures)

Rect(l, h) == [lo |-> l, hi |-> h]

Rectangles == {Rect(l, h) : l \in Points, h \in Points}

\* Feature::default(): empty name, location unset (reads as the default point)
DefaultFeature == Feat("", DefaultPoint)

\* RouteSummary::default()
DefaultSummary ==
    [point_count |-> 0, feature_count |-> 0, distance |-> 0, elapsed_time |-> 0]

Some(x) == <<x>>
None    == <<>>

---------------------------------------------------------------------------
(* i32 arithmetic *)

MaxI32 == 2147483647
MinI32 == -MaxI32 - 1

\* a + b on i32 with two's-complement wrap-around (the intermediate values
\* stay inside the 32-bit range).
AddI32(a, b) ==
    IF a >= 0 /\ b >= 0
    THEN IF a > MaxI32 - b THEN (a - MaxI32 - 1) + (b - MaxI32 - 1) ELSE a + b
    ELSE IF a < 0 /\ b < 0
         THEN IF a < MinI32 - b THEN (a + MaxI32 + 1) + (b + MaxI32 + 1) ELSE a + b
         ELSE a + b

---------------------------------------------------------------------------
(* util.rs *)

\* a mutated util::exists that takes every feature for a named one
ExistsAlways(feature) == TRUE

\* util::exists
Exists(feature) == feature.name # ""

\* a mutated point_eq that forgets the longitude
PointEqLatOnly(p1, p2) == p1.latitude = p2.latitude

\* util::point_eq
PointEq(p1, p2) ==
    IF p1.latitude = p2.latitude /\ p1.longitude = p2.longitude THEN TRUE ELSE FALSE

RECURSIVE FindLast(_, _, _)
FindLast(fs, location, i) ==
    IF i = 0 THEN None
    ELSE IF PointEq(fs[i].location, location) THEN Some(fs[i])
         ELSE FindLast(fs, location, i - 1)

\* a mutated check_feature that returns the last match instead of the first
CheckFeatureLast(fs, location) == FindLast(fs, location, Len(fs))

RECURSIVE FindMap(_, _, _)
\* Iterator::find_map from position i on
FindMap(fs, location, i) ==
    IF i > Len(fs) THEN None
    ELSE IF PointEq(fs[i].location, location) THEN Some(fs[i])
         ELSE FindMap(fs, location, i + 1)

\* util::check_feature
CheckFeature(fs, location) == FindMap(fs, location, 1)

Min(a, b) == IF a <= b THEN a ELSE b
Max(a, b) == IF a >= b THEN a ELSE b

\* a mutated in_range that takes lo for the smaller corner on both axes
InRangeAssumesOrdered(point, rect) ==
    /\ point.longitude >= rect.lo.longitude /\ point.longitude <= rect.hi.longitude
    /\ point.latitude >= rect.lo.latitude /\ point.latitude <= rect.hi.latitude

\* a mutated in_range whose borders are outside
InRangeExclusive(point, rect) ==
    LET left   == Min(rect.lo.longitude, rect.hi.longitude)
        right  == Max(rect.lo.longitude, rect.hi.longitude)
        top    == Max(rect.lo.latitude, rect.hi.latitude)
        bottom == Min(rect.lo.latitude, rect.hi.latitude)
    IN  /\ point.longitude > left /\ point.longitude < right
        /\ point.latitude > bottom /\ point.latitude < top

\* util::in_range
InRange(point, rect) ==
    LET lo == rect.lo
        hi == rect.hi
        left   == Min(lo.longitude, hi.longitude)
        right  == Max(lo.longitude, hi.longitude)
        top    == Max(lo.latitude, hi.latitude)
        bottom == Min(lo.latitude, hi.latitude)
        lat == point.latitude
        lon == point.longitude
    IN  IF lon >= left /\ lon <= right /\ lat >= bottom /\ lat <= top
        THEN TRUE ELSE FALSE

\* a call of in_range on the chosen point and rectangle
InRangeCall ==
    /\ irPoint # None /\ irRect # None
    /\ irOut' = Some(InRange(irPoint[1], irRect[1]))
    /\ UNCHANGED <<features, now, queryVars, recordVars, chatVars, irPoint, irRect>>

\* a mutated calc_distance that is one metre off
CalcDistanceOffByOne(start, end) == 1

\* util::calc_distance on the points of the model: the haversine formula of
\* lines 107-118 evaluated in f64, then `distance as i32` (truncation).
\*   (0,0) - (0,180 deg)            : 20015086.796... -> 20015086
\*   (0,0) - (40.9146138,-74.6188906):  8721850.797... ->  8721850
\*   (0,180 deg) - (40.91..,-74.61..): 11293235.998... -> 11293235
CalcDistance(start, end) ==
    IF start = end THEN 0
    ELSE IF {start, end} = {Origin, Antipode} THEN 20015086
    ELSE IF {start, end} = {Origin, Feature1} THEN 8721850
    ELSE 11293235


---------------------------------------------------------------------------
(* server.rs : record_route *)

\* a mutated handler that takes the features out of the store it reads
SharedFeaturesTaken(fs) == <<>>

\* the store after a handler has read it: the service holds it in an
\* Arc<FeatureDatabase>, which hands out shared references only
SharedFeatures(fs) == fs

\* Option::unwrap_or_else
UnwrapOr(opt, default) == IF opt = None THEN default ELSE opt[1]

\* a mutated fold closure that counts a passed feature twice
FoldClosureCountTwice(prev, sum, point, fs) ==
    LET feature == UnwrapOr(CheckFeature(fs, point), DefaultFeature)
    IN  [prev |-> Some(point),
         sum  |-> [sum EXCEPT !.point_count = AddI32(@, 1),
                              !.feature_count =
                                  IF feature.name # "" THEN AddI32(@, 2) ELSE @]]

\* the closure given to Stream::fold: one received point
FoldClosure(prev, sum, point, fs) ==
    LET sum1 == [sum EXCEPT !.point_count = AddI32(@, 1)]
        feature == UnwrapOr(CheckFeature(fs, point), DefaultFeature)
        sum2 == IF Exists(feature)
                THEN [sum1 EXCEPT !.feature_count = AddI32(@, 1)]
                ELSE sum1
        sum3 == IF prev # None
                THEN [sum2 EXCEPT !.distance =
                                      AddI32(@, CalcDistance(prev[1], point))]
                ELSE sum2
    IN  [prev |-> Some(point), sum |-> sum3]

\* a mutated conversion that rounds to the nearest second
ElapsedSecsRounded(start, t) == (t - start + 500) \div 1000

\* Duration::as_secs() as i32 of timer.elapsed(); the clock is in milliseconds
ElapsedSecs(start, t) == (t - start) \div 1000

\* a mutated end-of-stream test that takes "no point ready" for the end
StreamEndedWhenIdle == rrRead = rrSent

\* the request stream yields Ready(None): the client half-closed it and every
\* point it sent has been consumed
StreamEnded == rrClosed /\ rrRead = rrSent

\* a mutated error path that flushes what was accumulated so far
OnFoldErrorFlush(out, a) == IF a = None THEN out ELSE Append(out, a[1].sum)

\* what reaches the sink when the fold resolves to Err: and_then is skipped,
\* map_err only logs
OnFoldError(out, a) == out

\* the handler is invoked: the timer is started, the fold is spawned
RecordRouteCall ==
    /\ rrPc = "idle"
    /\ rrPc' = "fold"
    /\ timer' = now
    /\ acc' = Some([prev |-> None, sum |-> DefaultSummary])
    /\ UNCHANGED <<utilVars, features, now, queryVars, chatVars,
                   route, rrSent, rrClosed, rrErr, rrRead, rrOut>>

\* client.rs record_route: sink.send(point)
ClientSendPoint ==
    /\ rrPc # "idle"
    /\ ~rrClosed
    /\ rrSent < Len(route)
    /\ rrSent - rrRead < MaxInFlight
    /\ rrSent' = rrSent + 1
    /\ UNCHANGED <<utilVars, features, now, queryVars, chatVars,
                   route, rrClosed, rrErr, rrRead, rrPc, acc, timer, rrOut>>

\* client.rs record_route: sink.close()
ClientClosePoints ==
    /\ rrPc # "idle"
    /\ ~rrClosed
    /\ rrSent = Len(route)
    /\ rrClosed' = TRUE
    /\ UNCHANGED <<utilVars, features, now, queryVars, chatVars,
                   route, rrSent, rrErr, rrRead, rrPc, acc, timer, rrOut>>

\* the transport fails the request stream, or the call is cancelled
RecordStreamError ==
    /\ rrPc = "fold"
    /\ ~rrErr
    /\ rrErr' = TRUE
    /\ UNCHANGED <<utilVars, features, now, queryVars, chatVars,
                   route, rrSent, rrClosed, rrRead, rrPc, acc, timer, rrOut>>

\* the fold consumes the next point
FoldPoint ==
    /\ rrPc = "fold"
    /\ ~rrErr
    /\ rrRead < rrSent
    /\ rrRead' = rrRead + 1
    /\ acc' = Some(FoldClosure(acc[1].prev, acc[1].sum, route[rrRead + 1], features))
    /\ features' = SharedFeatures(features)
    /\ UNCHANGED <<utilVars, now, queryVars, chatVars,
                   route, rrSent, rrClosed, rrErr, rrPc, timer, rrOut>>

\* the stream ended: and_then sets elapsed_time and calls sink.success(sum)
FoldEnd ==
    /\ rrPc = "fold"
    /\ ~rrErr
    /\ StreamEnded
    /\ rrPc' = "done"
    /\ rrOut' = Append(rrOut,
                       [acc[1].sum EXCEPT !.elapsed_time = ElapsedSecs(timer, now)])
    /\ acc' = None
    /\ UNCHANGED <<utilVars, features, now, queryVars, chatVars,
                   route, rrSent, rrClosed, rrErr, rrRead, timer>>

\* the stream yields Err: the fold resolves to Err and its state is dropped
FoldErr ==
    /\ rrPc = "fold"
    /\ rrErr
    /\ rrPc' = "failed"
    /\ rrOut' = OnFoldError(rrOut, acc)
    /\ acc' = None
    /\ UNCHANGED <<utilVars, features, now, queryVars, chatVars,
                   route, rrSent, rrClosed, rrErr, rrRead, timer>>

TickMs == 500

\* time passes while the call is running (only differences of Instants are
\* observable, so the clock starts at the call)
Tick ==
    /\ rrPc = "fold"
    /\ now - timer < MaxTicks * TickMs
    /\ now' = now + TickMs
    /\ UNCHANGED <<utilVars, features, queryVars, recordVars, chatVars>>


---------------------------------------------------------------------------
(* server.rs : get_feature *)

\* a mutated miss reply that forgets set_location(point)
GetFeatureReplyNoLocation(fs, point) ==
    UnwrapOr(CheckFeature(fs, point), DefaultFeature)

\* the feature given to sink.success
GetFeatureReply(fs, point) ==
    UnwrapOr(CheckFeature(fs, point), [DefaultFeature EXCEPT !.location = point])

\* the whole handler: look up, then sink.success(feature)
GetFeature(point) ==
    /\ gfPoint' = Some(point)
    /\ gfReply' = <<[status |-> "Ok", feature |-> GetFeatureReply(features, point)]>>
    /\ features' = SharedFeatures(features)
    /\ UNCHANGED <<utilVars, now, lfRect, lfIter, lfOut, lfPc, recordVars, chatVars>>

---------------------------------------------------------------------------
(* server.rs : list_features *)

RECURSIVE FilterInRange(_, _, _)
\* a mutated filter that forgets util::exists
FilterInRange(fs, rect, i) ==
    IF i > Len(fs) THEN <<>>
    ELSE (IF InRange(fs[i].location, rect) THEN <<fs[i]>> ELSE <<>>)
         \o FilterInRange(fs, rect, i + 1)

ListCollectUnnamedToo(fs, rect) == FilterInRange(fs, rect, 1)

RECURSIVE FilterFeatures(_, _, _)
\* iter().filter(exists && in_range).collect() from position i on
FilterFeatures(fs, rect, i) ==
    IF i > Len(fs) THEN <<>>
    ELSE (IF Exists(fs[i]) /\ InRange(fs[i].location, rect) THEN <<fs[i]>> ELSE <<>>)
         \o FilterFeatures(fs, rect, i + 1)

\* the Vec collected by the handler
ListCollect(fs, rect) == FilterFeatures(fs, rect, 1)

\* the handler: collect the features, spawn sink.send_all(iter_ok(features))
ListFeaturesCall(rect) ==
    /\ lfPc \in {"idle", "closed"}
    /\ lfRect' = Some(rect)
    /\ lfIter' = ListCollect(features, rect)
    /\ lfOut' = <<>>
    /\ lfPc' = "send"
    /\ features' = SharedFeatures(features)
    /\ UNCHANGED <<utilVars, now, gfPoint, gfReply, recordVars, chatVars>>

\* send_all hands the next collected feature to the sink
ListSend ==
    /\ lfPc = "send"
    /\ lfIter # <<>>
    /\ lfOut' = Append(lfOut, Head(lfIter))
    /\ lfIter' = Tail(lfIter)
    /\ UNCHANGED <<utilVars, features, now, gfPoint, gfReply, lfRect, lfPc, recordVars, chatVars>>

\* the iterator is exhausted: send_all closes the sink
ListClose ==
    /\ lfPc = "send"
    /\ lfIter = <<>>
    /\ lfPc' = "closed"
    /\ UNCHANGED <<utilVars, features, now, gfPoint, gfReply, lfRect, lfIter, lfOut,
                   recordVars, chatVars>>

---------------------------------------------------------------------------
(* server.rs : route_chat *)

Calls == 1..NumCalls

Note(l, m) == [location |-> l, message |-> m]

\* two notes at one location, one at another
Notes == {Note(Origin, "m1"), Note(Origin, "m2"), Note(Antipode, "m1")}

RECURSIVE SumLen(_, _)
SumLen(f, S) ==
    IF S = {} THEN 0
    ELSE LET c == CHOOSE x \in S : TRUE IN Len(f[c]) + SumLen(f, S \ {c})

\* notes sent so far over all calls
NotesSent == SumLen(buffer, DOMAIN buffer) + SumLen(chatIn, DOMAIN chatIn)

\* a mutated handler whose calls all use the buffer of the first call (a
\* buffer kept in the service instead of in the call)
BufferOfShared(c) == 1

\* `let mut buffer = Vec::new()` is local to the invocation and moved into
\* its map closure: call c reads and writes its own buffer
BufferOf(c) == c

\* a mutated closure that pushes the note before it computes the replays
ReplayNotesAfterPush(buf, note) ==
    SelectSeq(Append(buf, note), LAMBDA n : PointEq(n.location, note.location))

\* the map closure's send_notes: buffer.iter().filter_map(point_eq).collect()
ReplayNotes(buf, note) ==
    SelectSeq(buf, LAMBDA n : PointEq(n.location, note.location))

\* a mutated flatten that polls the outer stream while replays are pending
FlattenPollsOuterAlways(c) == TRUE

\* Flatten polls the outer (mapped) stream only when its inner iterator is
\* exhausted
FlattenPollsOuter(c) == next[c] = <<>>

\* a mutated end-of-stream test that takes "no note ready" for the end
StreamExhaustedWhenIdle(c) == chatIn[c] = <<>>

\* the request stream yields Ready(None): the client half-closed it and
\* every note it sent has been read
StreamExhausted(c) == chatIn[c] = <<>> /\ chatClosed[c]

\* a mutated send_all that ignores the Err of its stream and of its sink
SendAllContinuesAlways(c) == TRUE

\* send_all goes on only while neither its stream nor its sink returned Err
\* (the `?` and try_ready! of every poll)
SendAllContinues(c) == ~chatErr[c]

\* the handler is invoked: the buffer is created, send_all is spawned
RouteChatCall(c) ==
    /\ chatPc[c] = "idle"
    /\ chatPc' = [chatPc EXCEPT ![c] = "run"]
    /\ buffer' = [buffer EXCEPT ![c] = <<>>]
    /\ UNCHANGED <<utilVars, features, now, queryVars, recordVars,
                   chatIn, chatClosed, chatErr, next, buffered, sinkBusy, chatOut>>

\* client.rs route_chat: sink.send(note)
ClientSendNote(c, note) ==
    /\ chatPc[c] = "run"
    /\ ~chatClosed[c]
    /\ Len(chatIn[c]) < MaxInFlight
    /\ NotesSent < MaxNotes
    /\ chatIn' = [chatIn EXCEPT ![c] = Append(@, note)]
    /\ UNCHANGED <<utilVars, features, now, queryVars, recordVars,
                   chatPc, chatClosed, chatErr, buffer, next, buffered, sinkBusy,
                   chatOut>>

\* client.rs route_chat: sink.close()
ClientCloseNotes(c) ==
    /\ chatPc[c] = "run"
    /\ ~chatClosed[c]
    /\ chatClosed' = [chatClosed EXCEPT ![c] = TRUE]
    /\ UNCHANGED <<utilVars, features, now, queryVars, recordVars,
                   chatPc, chatIn, chatErr, buffer, next, buffered, sinkBusy, chatOut>>

\* the transport fails the call: the request stream or the sink returns Err
\* to the poll of send_all
ChatStreamError(c) ==
    /\ chatPc[c] = "run"
    /\ ~chatErr[c]
    /\ chatErr' = [chatErr EXCEPT ![c] = TRUE]
    /\ UNCHANGED <<utilVars, features, now, queryVars, recordVars,
                   chatPc, chatIn, chatClosed, buffer, next, buffered, sinkBusy,
                   chatOut>>

\* send_all polls the stream; flatten polls the mapped stream; the map closure
\* runs on the next note
ChatMap(c) ==
    /\ chatPc[c] = "run"
    /\ SendAllContinues(c)
    /\ buffered[c] = None
    /\ FlattenPollsOuter(c)
    /\ chatIn[c] # <<>>
    /\ LET note == Head(chatIn[c]) IN
         /\ next' = [next EXCEPT ![c] = @ \o ReplayNotes(buffer[BufferOf(c)], note)]
         /\ buffer' = [buffer EXCEPT ![BufferOf(c)] = Append(@, note)]
    /\ chatIn' = [chatIn EXCEPT ![c] = Tail(@)]
    /\ UNCHANGED <<utilVars, features, now, queryVars, recordVars,
                   chatPc, chatClosed, chatErr, buffered, sinkBusy, chatOut>>

\* send_all takes the next replay from flatten and tries start_send: the sink
\* accepts it, or it is kept in SendAll.buffered
ChatPull(c) ==
    /\ chatPc[c] = "run"
    /\ SendAllContinues(c)
    /\ buffered[c] = None
    /\ next[c] # <<>>
    /\ next' = [next EXCEPT ![c] = Tail(@)]
    /\ IF sinkBusy[c]
       THEN /\ buffered' = [buffered EXCEPT ![c] = Some(Head(next[c]))]
            /\ UNCHANGED <<chatOut, sinkBusy>>
       ELSE /\ chatOut' = [chatOut EXCEPT ![c] = Append(@, Head(next[c]))]
            /\ sinkBusy' = [sinkBusy EXCEPT ![c] = TRUE]
            /\ UNCHANGED buffered
    /\ UNCHANGED <<utilVars, features, now, queryVars, recordVars,
                   chatPc, chatIn, chatClosed, chatErr, buffer>>

\* send_all writes its buffered item before anything else
ChatFlush(c) ==
    /\ chatPc[c] = "run"
    /\ SendAllContinues(c)
    /\ buffered[c] # None
    /\ ~sinkBusy[c]
    /\ chatOut' = [chatOut EXCEPT ![c] = Append(@, buffered[c][1])]
    /\ buffered' = [buffered EXCEPT ![c] = None]
    /\ sinkBusy' = [sinkBusy EXCEPT ![c] = TRUE]
    /\ UNCHANGED <<utilVars, features, now, queryVars, recordVars,
                   chatPc, chatIn, chatClosed, chatErr, buffer, next>>

\* the transport completes the write in flight
ChatWriteDone(c) ==
    /\ chatPc[c] = "run"
    /\ sinkBusy[c]
    /\ ~chatErr[c]
    /\ sinkBusy' = [sinkBusy EXCEPT ![c] = FALSE]
    /\ UNCHANGED <<utilVars, features, now, queryVars, recordVars,
                   chatPc, chatIn, chatClosed, chatErr, buffer, next, buffered,
                   chatOut>>

\* the request stream ended and nothing is pending: send_all closes the sink
\* (DuplexSink::close first waits for the write in flight)
ChatEnd(c) ==
    /\ chatPc[c] = "run"
    /\ SendAllContinues(c)
    /\ ~sinkBusy[c]
    /\ buffered[c] = None
    /\ next[c] = <<>>
    /\ StreamExhausted(c)
    /\ chatPc' = [chatPc EXCEPT ![c] = "closed"]
    /\ UNCHANGED <<utilVars, features, now, queryVars, recordVars,
                   chatIn, chatClosed, chatErr, buffer, next, buffered, sinkBusy,
                   chatOut>>

\* send_all resolves to Err: map_err logs, the future and its state are dropped
ChatFail(c) ==
    /\ chatPc[c] = "run"
    /\ chatErr[c]
    /\ chatPc' = [chatPc EXCEPT ![c] = "failed"]
    /\ buffer' = [buffer EXCEPT ![c] = <<>>]
    /\ next' = [next EXCEPT ![c] = <<>>]
    /\ buffered' = [buffered EXCEPT ![c] = None]
    /\ chatIn' = [chatIn EXCEPT ![c] = <<>>]
    /\ sinkBusy' = [sinkBusy EXCEPT ![c] = FALSE]
    /\ UNCHANGED <<utilVars, features, now, queryVars, recordVars,
                   chatClosed, chatErr, chatOut>>


---------------------------------------------------------------------------
(* Specifications *)

\* client.rs record_route visits randomly chosen points; LongRoute goes back
\* and forth between two antipodal points
LongRoute == [i \in 1..(LongHops + 1) |-> IF i % 2 = 1 THEN Origin ELSE Antipode]

Routes == SeqsUpTo(Points, MaxPoints) \cup {LongRoute}

\* no GetFeature, ListFeatures or RecordRoute call has been made yet
InitIdle ==
    /\ gfPoint = None /\ gfReply = <<>>
    /\ lfRect = None /\ lfIter = <<>> /\ lfOut = <<>> /\ lfPc = "idle"
    /\ rrSent = 0 /\ rrClosed = FALSE /\ rrErr = FALSE /\ rrRead = 0
    /\ rrPc = "idle" /\ acc = None /\ timer = 0 /\ rrOut = <<>>

\* ... and the clock reads 0
InitHandlers == now = 0 /\ InitIdle

\* ... and in_range is not being called on its own
InitNoChat == InitHandlers /\ irPoint = None /\ irRect = None /\ irOut = None

\* the RouteChat calls S that are going to be made have not started
InitChatCalls(S) ==
    /\ chatPc = [c \in S |-> "idle"]
    /\ chatIn = [c \in S |-> <<>>]
    /\ chatClosed = [c \in S |-> FALSE]
    /\ chatErr = [c \in S |-> FALSE]
    /\ buffer = [c \in S |-> <<>>]
    /\ next = [c \in S |-> <<>>]
    /\ buffered = [c \in S |-> None]
    /\ sinkBusy = [c \in S |-> FALSE]
    /\ chatOut = [c \in S |-> <<>>]

\* RouteGuideService::new(features): no call has been made yet
InitCalls == InitNoChat /\ InitChatCalls(Calls)

InitService == features \in Stores /\ InitCalls

\* a store with a named and an unnamed feature, for the specifications whose
\* control flow does not depend on the store
DemoStore == <<Feat("A", Feature1), Feat("", Origin)>>

\* GetFeature and ListFeatures requests
InitQuery == InitService /\ route = <<>>

NextQuery ==
    \/ \E p \in Points : GetFeature(p)
    \/ \E r \in Rectangles : ListFeaturesCall(r)
    \/ ListSend
    \/ ListClose

SpecQuery == InitQuery /\ [][NextQuery]_vars

\* one RecordRoute call
InitRecord == InitService /\ route \in Routes

NextRecord ==
    \/ RecordRouteCall
    \/ ClientSendPoint
    \/ ClientClosePoints
    \/ RecordStreamError
    \/ FoldPoint
    \/ FoldEnd
    \/ FoldErr
    \/ Tick

SpecRecord == InitRecord /\ [][NextRecord]_vars

InitRecordFair == features = DemoStore /\ InitCalls /\ route \in Routes

\* the executor keeps polling the spawned future while it can make progress
SpecRecordFair ==
    /\ InitRecordFair
    /\ [][NextRecord]_vars
    /\ WF_vars(FoldPoint) /\ WF_vars(FoldEnd) /\ WF_vars(FoldErr)

\* one RecordRoute call on a service whose clock reads StartTimes when the
\* first request arrives
StartTimes == {0, TickMs}
TimedRoutes == {<<>>, <<Feature1, Origin>>}

InitTimed ==
    /\ features = DemoStore
    /\ now \in StartTimes
    /\ InitIdle
    /\ irPoint = None /\ irRect = None /\ irOut = None
    /\ InitChatCalls(Calls)
    /\ route \in TimedRoutes

SpecTimed == InitTimed /\ [][NextRecord]_vars

\* RouteChat calls
\* (the handler never reads the store)
InitChat == features = DemoStore /\ InitCalls /\ route = <<>>

NextChat ==
    \E c \in Calls :
        \/ RouteChatCall(c)
        \/ \E n \in Notes : ClientSendNote(c, n)
        \/ ClientCloseNotes(c)
        \/ ChatStreamError(c)
        \/ ChatMap(c)
        \/ ChatPull(c)
        \/ ChatFlush(c)
        \/ ChatWriteDone(c)
        \/ ChatEnd(c)
        \/ ChatFail(c)

SpecChat == InitChat /\ [][NextChat]_vars

\* one RouteChat call; the executor keeps polling the spawned future while it
\* can make progress and the transport keeps completing the writes
SoloCalls == {1}

InitChatSolo ==
    features = DemoStore /\ InitNoChat /\ InitChatCalls(SoloCalls) /\ route = <<>>

NextChatSolo ==
    \E c \in SoloCalls :
        \/ RouteChatCall(c)
        \/ \E n \in Notes : ClientSendNote(c, n)
        \/ ClientCloseNotes(c)
        \/ ChatStreamError(c)
        \/ ChatMap(c)
        \/ ChatPull(c)
        \/ ChatFlush(c)
        \/ ChatWriteDone(c)
        \/ ChatEnd(c)
        \/ ChatFail(c)

SpecChatFair ==
    /\ InitChatSolo
    /\ [][NextChatSolo]_vars
    /\ \A c \in SoloCalls :
           /\ WF_vars(ChatMap(c)) /\ WF_vars(ChatPull(c)) /\ WF_vars(ChatFlush(c))
           /\ WF_vars(ChatWriteDone(c)) /\ WF_vars(ChatEnd(c)) /\ WF_vars(ChatFail(c))

\* calls of in_range on the points and the rectangles of a small grid
\* around (0, 0), in units of 1e-7 degree
Grid == (0 - GridSpan)..GridSpan
GridPoints == {Pt(lat, lon) : lat \in Grid, lon \in Grid}
GridRectangles == {Rect(l, h) : l \in GridPoints, h \in GridPoints}

InitInRange ==
    /\ features = DemoStore /\ InitHandlers /\ InitChatCalls(Calls) /\ route = <<>>
    /\ irPoint \in {Some(p) : p \in GridPoints}
    /\ irRect \in {Some(r) : r \in GridRectangles}
    /\ irOut = None

NextInRange == InRangeCall

SpecInRange == InitInRange /\ [][NextInRange]_vars

\* the four handlers of one service, their calls interleaved
ServiceStores == {DemoStore, <<Feat("", Origin), Feat("A", Origin)>>}
ServiceRoute == <<Feature1, Origin>>
ServiceRectangles == {Rect(Origin, Feature1)}
ServiceNotes == {Note(Origin, "m1"), Note(Origin, "m2")}

InitAll ==
    /\ features \in ServiceStores
    /\ InitNoChat /\ InitChatCalls(SoloCalls)
    /\ route = ServiceRoute

NextAll ==
    \/ \E p \in StorePoints : GetFeature(p)
    \/ \E r \in ServiceRectangles : ListFeaturesCall(r)
    \/ ListSend
    \/ ListClose
    \/ RecordRouteCall
    \/ ClientSendPoint
    \/ ClientClosePoints
    \/ RecordStreamError
    \/ FoldPoint
    \/ FoldEnd
    \/ FoldErr
    \/ \E c \in SoloCalls :
           \/ RouteChatCall(c)
           \/ \E n \in ServiceNotes : ClientSendNote(c, n)
           \/ ClientCloseNotes(c)
           \/ ChatStreamError(c)
           \/ ChatMap(c)
           \/ ChatPull(c)
           \/ ChatFlush(c)
           \/ ChatWriteDone(c)
           \/ ChatEnd(c)
           \/ ChatFail(c)

SpecAll == InitAll /\ [][NextAll]_vars

\* two RouteChat calls running concurrently
PairCalls == {1, 2}

InitChatPair ==
    features = DemoStore /\ InitNoChat /\ InitChatCalls(PairCalls) /\ route = <<>>

NextChatPair ==
    \E c \in PairCalls :
        \/ RouteChatCall(c)
        \/ \E n \in Notes : ClientSendNote(c, n)
        \/ ClientCloseNotes(c)
        \/ ChatStreamError(c)
        \/ ChatMap(c)
        \/ ChatPull(c)
        \/ ChatFlush(c)
        \/ ChatWriteDone(c)
        \/ ChatEnd(c)
        \/ ChatFail(c)

SpecChatPair == InitChatPair /\ [][NextChatPair]_vars


---------------------------------------------------------------------------
(* Properties: RouteChat *)

\* the k-th smallest element of a finite set of numbers
KthOf(S, k) == CHOOSE j \in S : Cardinality({x \in S : x < j}) = k - 1

\* positions before i of the notes at the location of the i-th note
EarlierAtSameLocation(buf, i) ==
    {j \in 1..(i - 1) :
        /\ buf[j].location.latitude = buf[i].location.latitude
        /\ buf[j].location.longitude = buf[i].location.longitude}

\* the replay the i-th note of a call must trigger
ReplayOf(buf, i) ==
    [k \in 1..Cardinality(EarlierAtSameLocation(buf, i)) |->
        buf[KthOf(EarlierAtSameLocation(buf, i), k)]]

RECURSIVE ConcatReplays(_, _)
\* the replays of the first i notes, one after the other
ConcatReplays(buf, i) ==
    IF i = 0 THEN <<>> ELSE ConcatReplays(buf, i - 1) \o ReplayOf(buf, i)

\* what send_all still holds of a call, in the order it will be written
Pending(c) == buffered[c] \o next[c]

IsPrefix(s, t) == Len(s) <= Len(t) /\ SubSeq(t, 1, Len(s)) = s

\* C1: when the i-th note of a call arrives, the handler queues for emission
\* exactly the notes received strictly earlier on the call at the same
\* latitude and longitude, unchanged and in arrival order (nothing when there
\* is none, never the arriving note itself); the arriving note joins the
\* history, and every note the sink accepts is the oldest one queued.
C1_ReplayContent ==
    [][\A c \in Calls :
         /\ (chatPc[c] = "run" /\ Len(buffer'[c]) = Len(buffer[c]) + 1) =>
               /\ buffer'[c] = Append(buffer[c], Head(chatIn[c]))
               /\ chatOut'[c] = chatOut[c]
               /\ Pending(c)' = Pending(c) \o ReplayOf(buffer'[c], Len(buffer'[c]))
         /\ chatOut'[c] # chatOut[c] =>
               /\ Pending(c) # <<>>
               /\ chatOut'[c] = Append(chatOut[c], Head(Pending(c)))
               /\ Pending(c)' = Tail(Pending(c))
      ]_vars

\* a call received three notes at one location and both replays of the third
\* (and the one of the second) were written
C1_Witness ==
    \E c \in Calls :
        /\ Len(buffer[c]) = 3
        /\ Len(ReplayOf(buffer[c], 3)) = 2
        /\ chatOut[c] = ReplayOf(buffer[c], 2) \o ReplayOf(buffer[c], 3)

\* C2: the output of a call is, in input arrival order, the concatenation of
\* the per-note replay lists, and the replays of every note but the latest
\* one have all been handed to the sink (so the matches of note N+1 are
\* computed only after all replays of note N were handed over).
C2_OutputOrder ==
    \A c \in Calls :
        chatPc[c] \in {"run", "closed"} =>
            LET n == Len(buffer[c]) IN
            /\ chatOut[c] \o Pending(c) = ConcatReplays(buffer[c], n)
            /\ n > 0 => IsPrefix(ConcatReplays(buffer[c], n - 1), chatOut[c])
            /\ n = 0 => chatOut[c] = <<>>
            /\ chatPc[c] = "closed" => Pending(c) = <<>>

\* a replay of note N is still waiting in flatten while note N+1 has already
\* arrived on the call
C2_Witness ==
    \E c \in Calls :
        /\ chatPc[c] = "run"
        /\ Len(buffer[c]) = 2
        /\ next[c] = <<buffer[c][1]>>
        /\ chatIn[c] # <<>>

---------------------------------------------------------------------------
(* Properties: RecordRoute *)

\* the input stream has ended: the client closed it and every point of the
\* route was consumed
InputEnded == rrClosed /\ rrSent = Len(route) /\ rrRead = Len(route)

\* C3: at most one RouteSummary is ever written, none while points are still
\* arriving (a written summary means the input stream has ended), and once
\* the client has closed the stream of a running call a summary is eventually
\* written unless the stream fails.
C3_SummaryOnce ==
    /\ [](Len(rrOut) <= 1)
    /\ [](rrOut # <<>> => InputEnded /\ rrPc = "done")
    /\ ((rrPc = "fold" /\ rrClosed) ~> (Len(rrOut) = 1 \/ rrErr))

\* a summary was written after three points
C3_Witness == Len(rrOut) = 1 /\ rrRead = 3 /\ ~rrErr

\* the lookup at p finds a feature with a non-empty name: the first stored
\* feature located at p is named
NamedFeatureAt(p) ==
    \E i \in 1..Len(features) :
        /\ features[i].location = p
        /\ \A j \in 1..(i - 1) : features[j].location # p
        /\ features[i].name # ""

\* C4: the summary of a stream of n points that ended normally has
\* point_count = n and feature_count = the number of positions of the stream
\* whose point has a named feature in the store; the empty stream gives
\* point_count = 0, feature_count = 0 and distance = 0.
C4_Counters ==
    rrPc = "done" =>
        /\ Len(rrOut) = 1
        /\ rrOut[1].point_count = Len(route)
        /\ rrOut[1].feature_count =
               Cardinality({i \in 1..Len(route) : NamedFeatureAt(route[i])})
        /\ route = <<>> => rrOut[1].distance = 0

\* a summary of three points of which some, not all, passed a named feature;
\* one of them lies at a location whose first stored feature is unnamed
C4_Witness ==
    /\ rrPc = "done"
    /\ Len(route) = 3
    /\ rrOut[1].feature_count \in {1, 2}
    /\ \E i \in 1..3 : \E k \in 1..Len(features) :
           features[k].location = route[i] /\ ~NamedFeatureAt(route[i])

RECURSIVE WideSum(_, _)
\* the sum of the distances between the consecutive points of the first i
\* points of r, as <<billions, rest>> (it can exceed 32 bits)
WideSum(r, i) ==
    IF i <= 1 THEN <<0, 0>>
    ELSE LET w  == WideSum(r, i - 1)
             lo == w[2] + CalcDistance(r[i - 1], r[i])
         IN  IF lo >= 1000000000 THEN <<w[1] + 1, lo - 1000000000>>
             ELSE <<w[1], lo>>

Wide(x) == <<x \div 1000000000, x % 1000000000>>

\* C5: the summary's distance is the sum of the distances between the
\* consecutive points of the input stream.
C5_DistanceIsSum ==
    rrPc = "done" =>
        /\ rrOut[1].distance >= 0
        /\ Wide(rrOut[1].distance) = WideSum(route, Len(route))

\* C6: feature_count never exceeds point_count, neither in the accumulator
\* after any number of points nor in a written summary.
C6_FeatureLePoint ==
    /\ acc # None => acc[1].sum.feature_count <= acc[1].sum.point_count
    /\ \A i \in 1..Len(rrOut) : rrOut[i].feature_count <= rrOut[i].point_count

\* every one of at least two received points passed a feature
C6_Witness ==
    /\ acc # None
    /\ acc[1].sum.point_count >= 2
    /\ acc[1].sum.feature_count = acc[1].sum.point_count

\* C7: once the request stream of a call has failed (read error or cancel
\* before the stream ended) no RouteSummary is written for the call, and the
\* failed call keeps nothing of what it had accumulated.
C7_AbortEmitsNothing ==
    rrErr =>
        /\ rrOut = <<>>
        /\ rrPc \in {"fold", "failed"}
        /\ rrPc = "failed" => acc = None

\* a call failed after it had accumulated two points
C7_Witness == rrPc = "failed" /\ rrRead >= 2 /\ rrOut = <<>>

---------------------------------------------------------------------------
(* Properties: GetFeature and ListFeatures *)

\* positions of the stored features located at p
StoredAt(p) == {i \in 1..Len(features) : features[i].location = p}

\* C8: when no stored feature is located at the queried point p, GetFeature
\* succeeds with exactly one reply: a Feature with an empty name whose
\* location is p.
C8_GetFeatureMiss ==
    \A p \in Points :
        (gfPoint = Some(p) /\ StoredAt(p) = {}) =>
            gfReply = <<[status |-> "Ok", feature |-> [name |-> "", location |-> p]]>>

\* a miss on a non-empty store, at a point that is not the default point
C8_Witness ==
    /\ gfPoint = Some(Antipode)
    /\ features # <<>>
    /\ Len(gfReply) = 1
    /\ gfReply[1].feature.location = Antipode

\* C9: when at least one stored feature is located at the queried point p,
\* GetFeature replies with the first of them in store order, name and
\* location unchanged.
C9_GetFeatureHit ==
    \A p \in Points :
        (gfPoint = Some(p) /\ StoredAt(p) # {}) =>
            /\ Len(gfReply) = 1
            /\ gfReply[1].status = "Ok"
            /\ \E i \in StoredAt(p) :
                   /\ \A j \in StoredAt(p) : i <= j
                   /\ gfReply[1].feature = features[i]

\* a hit at a location that holds two different features
C9_Witness ==
    /\ Len(features) = 2
    /\ features[1].location = features[2].location
    /\ features[1].name # features[2].name
    /\ gfPoint = Some(features[1].location)
    /\ Len(gfReply) = 1

\* p lies in the envelope of the two corners of r, borders included
Inside(p, r) ==
    /\ \/ r.lo.latitude <= p.latitude /\ p.latitude <= r.hi.latitude
       \/ r.hi.latitude <= p.latitude /\ p.latitude <= r.lo.latitude
    /\ \/ r.lo.longitude <= p.longitude /\ p.longitude <= r.hi.longitude
       \/ r.hi.longitude <= p.longitude /\ p.longitude <= r.lo.longitude

\* positions of the named stored features inside r
NamedInside(r) ==
    {i \in 1..Len(features) : features[i].name # "" /\ Inside(features[i].location, r)}

\* the subsequence of the store made of the named features inside r
ExpectedList(r) ==
    [k \in 1..Cardinality(NamedInside(r)) |-> features[KthOf(NamedInside(r), k)]]

\* C10: what ListFeatures(r) emits is the subsequence of the store made of
\* the named features located inside r, in store order: the features written
\* so far are a prefix of it, and all of it is written when the stream closes.
C10_ListFeatures ==
    \A r \in Rectangles :
        lfRect = Some(r) =>
            /\ lfOut \o lfIter = ExpectedList(r)
            /\ lfPc = "closed" => lfOut = ExpectedList(r)
            /\ lfPc # "idle"

\* a closed stream that emitted one feature of a two-feature store whose
\* other feature lies in the rectangle too but has no name
C10_Witness ==
    /\ lfPc = "closed"
    /\ Len(features) = 2
    /\ Len(lfOut) = 1
    /\ \A i \in 1..2 : Inside(features[i].location, lfRect[1])

---------------------------------------------------------------------------
(* Properties: RouteChat calls running together *)

\* everything a call has scheduled for its output so far
Scheduled(c) == chatOut[c] \o Pending(c)

\* C11: with several RouteChat calls interleaved, whatever a call adds to
\* its output is a note that was received earlier on that same call (never
\* a note that only another call received), and a call's history only grows
\* by the notes sent on that call.
C11_CallIsolation ==
    [][\A c \in DOMAIN chatPc :
         /\ \A k \in 1..Len(Scheduled(c)') :
                k > Len(Scheduled(c)) =>
                    \E j \in 1..Len(buffer[c]) : buffer[c][j] = Scheduled(c)'[k]
         /\ Len(buffer'[c]) > Len(buffer[c]) =>
                /\ chatIn[c] # <<>>
                /\ buffer'[c] = Append(buffer[c], Head(chatIn[c]))
      ]_vars

\* both calls received a note at one location, the second call then another
\* one there: it replayed its own note and not the note of the first call
C11_Witness ==
    /\ Len(buffer[1]) = 1
    /\ Len(buffer[2]) = 2
    /\ buffer[1][1].location = buffer[2][1].location
    /\ buffer[2][2].location = buffer[2][1].location
    /\ buffer[1][1] # buffer[2][1]
    /\ chatOut[2] = <<buffer[2][1]>>
    /\ chatOut[1] = <<>>

\* C12: the output stream of a call is closed only after its input stream
\* has ended and every replay of every received note has been written, and
\* a running call whose client has closed the input stream eventually closes
\* its output stream unless the call fails.
C12_ChatTermination ==
    /\ [](\A c \in SoloCalls :
            chatPc[c] = "closed" =>
                /\ chatClosed[c] /\ chatIn[c] = <<>>
                /\ Pending(c) = <<>>
                /\ chatOut[c] = ConcatReplays(buffer[c], Len(buffer[c])))
    /\ \A c \in SoloCalls :
           (chatPc[c] = "run" /\ chatClosed[c]) ~> (chatPc[c] = "closed" \/ chatErr[c])

\* a call closed its output after it had written the three replays of three
\* notes at one location
C12_Witness ==
    \E c \in SoloCalls :
        /\ chatPc[c] = "closed"
        /\ Len(buffer[c]) = 3
        /\ Len(chatOut[c]) = 3

---------------------------------------------------------------------------
(* Properties: the feature store *)

\* C13: no step of a GetFeature, ListFeatures, RecordRoute or RouteChat
\* call, in any interleaving of the calls, changes the contents or the order
\* of the feature store.
C13_StoreImmutable == [][features' = features]_vars

\* every handler has completed a call that read a store of two features
C13_Witness ==
    /\ Len(features) = 2
    /\ gfReply # <<>>
    /\ lfPc = "closed" /\ lfOut # <<>>
    /\ rrOut # <<>> /\ rrOut[1].point_count = 2
    /\ \E c \in SoloCalls : chatPc[c] = "closed" /\ chatOut[c] # <<>>

---------------------------------------------------------------------------
(* Properties: RouteChat failure *)

\* C14: once a transport error has occurred on the input stream or on the
\* output sink of a call, no step writes a further note to the output of
\* that call, and no step ever takes back a note already written.
C14_NoWriteAfterError ==
    [][\A c \in DOMAIN chatPc :
         /\ IsPrefix(chatOut[c], chatOut'[c])
         /\ chatErr[c] => chatOut'[c] = chatOut[c]
      ]_vars

\* the error struck a running call that had written a replay and still had
\* a replay pending
C14_Witness ==
    \E c \in DOMAIN chatPc :
        /\ chatErr[c] /\ chatPc[c] = "run"
        /\ chatOut[c] # <<>>
        /\ Pending(c) # <<>>

---------------------------------------------------------------------------
(* Properties: in_range *)

\* the rectangle with its two corners exchanged
SwapCorners(r) == Rect(r.hi, r.lo)

\* the rectangle with the latitudes of its corners exchanged
SwapLatitudes(r) ==
    Rect(Pt(r.hi.latitude, r.lo.longitude), Pt(r.lo.latitude, r.hi.longitude))

\* the rectangle with the longitudes of its corners exchanged
SwapLongitudes(r) ==
    Rect(Pt(r.lo.latitude, r.hi.longitude), Pt(r.hi.latitude, r.lo.longitude))

\* C15: the result of in_range(p, r) is the result of in_range on r with its
\* corners exchanged, and on r with the corners' latitudes only or
\* longitudes only exchanged.
C15_SwapInvariant ==
    irOut # None =>
        /\ irOut[1] = InRange(irPoint[1], SwapCorners(irRect[1]))
        /\ irOut[1] = InRange(irPoint[1], SwapLatitudes(irRect[1]))
        /\ irOut[1] = InRange(irPoint[1], SwapLongitudes(irRect[1]))

\* in_range returned true for a rectangle whose lo corner is the north-west
\* one
C15_Witness ==
    /\ irOut = Some(TRUE)
    /\ irRect[1].lo.latitude > irRect[1].hi.latitude
    /\ irRect[1].lo.longitude < irRect[1].hi.longitude
    /\ irPoint[1] = Origin

\* the four corners of the envelope of r
Corners(r) ==
    {Pt(lat, lon) : lat \in {r.lo.latitude, r.hi.latitude},
                    lon \in {r.lo.longitude, r.hi.longitude}}

\* p lies on one of the four edges of the envelope of r
OnEdge(p, r) ==
    /\ Inside(p, r)
    /\ \/ p.latitude \in {r.lo.latitude, r.hi.latitude}
       \/ p.longitude \in {r.lo.longitude, r.hi.longitude}

\* C18: in_range(p, r) is true exactly when p.longitude lies between the
\* smaller and the larger longitude of the corners and p.latitude between the
\* smaller and the larger latitude, both ends included: a point on an edge
\* or a corner is contained, and the rectangle lo = hi = q contains q only.
C18_InclusiveBounds ==
    irOut # None =>
        LET p == irPoint[1]
            r == irRect[1]
        IN  /\ irOut[1] = Inside(p, r)
            /\ irOut[1] \in BOOLEAN
            /\ OnEdge(p, r) => irOut[1]
            /\ p \in Corners(r) => irOut[1]
            /\ r.lo = r.hi => (irOut[1] <=> p = r.lo)

\* in_range returned true for the corner (lo.latitude, hi.longitude) of a
\* rectangle that is not given south-west corner first
C18_Witness ==
    /\ irOut = Some(TRUE)
    /\ irRect[1].lo.latitude > irRect[1].hi.latitude
    /\ irRect[1].lo.longitude # irRect[1].hi.longitude
    /\ irPoint[1] = Pt(irRect[1].lo.latitude, irRect[1].hi.longitude)

---------------------------------------------------------------------------
(* Properties: RecordRoute elapsed time and distance *)

\* C16: the step that emits the summary sets elapsed_time to the whole
\* seconds, fraction dropped, of the time from the start of the call to that
\* step, which is the step at which the input stream is found closed; the
\* other fields are those accumulated, all zero when no point was received.
C16_ElapsedTime ==
    [][rrOut' # rrOut =>
         /\ Len(rrOut') = Len(rrOut) + 1
         /\ StreamEnded
         /\ LET s == rrOut'[Len(rrOut')]
            IN  /\ 1000 * s.elapsed_time <= now - timer
                /\ now - timer < 1000 * (s.elapsed_time + 1)
                /\ s.point_count = acc[1].sum.point_count
                /\ s.feature_count = acc[1].sum.feature_count
                /\ s.distance = acc[1].sum.distance
                /\ rrRead = 0 =>
                       /\ s.point_count = 0
                       /\ s.feature_count = 0
                       /\ s.distance = 0
      ]_vars

\* a call started at 500 ms and found its two-point stream closed at
\* 2000 ms: elapsed_time is 1
C16_Witness ==
    /\ rrOut # <<>>
    /\ timer = 500 /\ now = 2000
    /\ rrOut[1].elapsed_time = 1
    /\ rrOut[1].point_count = 2

\* an empty stream closed 1500 ms after the start of the call
C16_WitnessEmpty ==
    /\ rrOut # <<>>
    /\ now - timer = 1500
    /\ rrOut[1] = [DefaultSummary EXCEPT !.elapsed_time = 1]

\* every point of the route is the same point
SamePointRoute == \A i \in DOMAIN route : route[i] = route[1]

---------------------------------------------------------------------------
(* Properties: GetFeature against ListFeatures *)

\* the latest GetFeature request was for p and the latest ListFeatures
\* request, now complete, was for the rectangle lo = hi = p
AskedBothAt(p) ==
    /\ gfPoint = Some(p) /\ Len(gfReply) = 1
    /\ lfRect = Some(Rect(p, p)) /\ lfPc = "closed"

\* GetFeature answered with a named feature
GotNamed == gfReply[1].feature.name # ""

\* an unnamed feature is stored at p before a named feature at p
UnnamedShadowsNamedAt(p) ==
    \E i, j \in 1..Len(features) :
        /\ i < j
        /\ features[i].location = p /\ features[i].name = ""
        /\ features[j].location = p /\ features[j].name # ""

---------------------------------------------------------------------------
(* Properties: RecordRoute counters *)

\* C20: while the points of a RecordRoute call arrive, point_count,
\* feature_count and the running distance never become negative and no step
\* decreases any of them, however long the stream.
C20_CountersMonotone ==
    [][acc' # None =>
         /\ acc'[1].sum.point_count >= 0
         /\ acc'[1].sum.feature_count >= 0
         /\ acc'[1].sum.distance >= 0
         /\ acc # None =>
                /\ acc'[1].sum.point_count >= acc[1].sum.point_count
                /\ acc'[1].sum.feature_count >= acc[1].sum.feature_count
                /\ acc'[1].sum.distance >= acc[1].sum.distance
      ]_vars

===========================================================================
